---- MODULE Spec2Model ----
(***************************************************************************)
(* A model of hashbench.cpp: the eight benchmark workloads, the            *)
(* calibration and trial loop of run_time_trials, the command-line        *)
(* dispatch of main, and the memory profiler measure_space.                *)
(*                                                                         *)
(* Each part of the program has its own specification (an initial state    *)
(* and a next-state relation over the same variables); the variables a     *)
(* part does not use stay at their idle values.                            *)
(***************************************************************************)
EXTENDS Integers, Sequences, FiniteSets, TLC

VARIABLES
    test,     \* the workload class under measurement (Test of measure_single_run)
    n,        \* the size handed to setup(n) and run(n)
    pc,       \* position in the workload: which loop runs next
    nloc,     \* a callee's own copy of n (DeleteTest adjusts it)
    i,        \* the loop counter of the running loop
    k,        \* the key cursor `Key k`
    r,        \* WorklistTest::r, the read cursor
    w,        \* WorklistTest::w, the write cursor
    table,    \* the workload's Table: a function from keys to values
    ops,      \* the Table operations issued so far, in order
    dt,       \* run_time_trials: the duration last measured, in milliseconds
    estimated_speed,  \* run_time_trials: n / dt, kept as the fraction <<n, dt>>
    calib,    \* the (size, duration) pairs the calibration loop has measured
    monotone, \* whether those pairs fit a cost that never decreases with the size
    samples,  \* the trials made so far: <<target_dt, n>> of each, in order
    conv,     \* what this build's size_t(double) yields out of range
    argv,     \* main: the command line, argv[0] included
    sparsehash, \* whether the build defines HAVE_SPARSEHASH
    stack,    \* the call stack below main: the running function is on top
    out,      \* what was written to standard output, in order
    err,      \* what was written to standard error, in order
    status,   \* "running", or what main returned: "returned 0", "returned 1"
    opt,      \* measure_space: the ByteSizeOption
    ht0,      \* measure_space: the DenseTable (under HAVE_SPARSEHASH)
    ht1,      \* measure_space: the OpenTable
    ht2,      \* measure_space: the CloseTable
    impl,     \* measure_single_run: the Table the Test is instantiated with
    events,   \* measure_single_run: what it has done so far, in order
    peer,     \* a second execution of the same measurement, beside the first
    agree,    \* whether both executions have issued the same operations
    fault     \* whether the Table has returned a result against its contract

\* The variables of the workloads alone.
wvars == <<nloc, k, r, w, table, ops>>

\* The variables of run_time_trials alone.
tvars == <<dt, estimated_speed, calib, monotone, samples, conv>>

\* The variables of main and of the report alone.
mvars == <<argv, sparsehash, stack, out, err, status>>

\* The variables of measure_space alone.
svars == <<opt, ht0, ht1, ht2>>

\* The variables of measure_single_run and of the observers of a measurement.
xvars == <<impl, events, peer, agree, fault>>

vars == <<test, n, pc, i, wvars, tvars, mvars, svars, xvars>>

(***************************************************************************)
(* Fixed-width unsigned integers.  A 64-bit value is a tuple of four       *)
(* 16-bit limbs, least significant first, so that every intermediate       *)
(* product stays below 2^31.  Arithmetic is modulo Base^Len(x).            *)
(***************************************************************************)
Base == 65536

KeyLimbs == 4

\* The value x (0 <= x < 2^31) as a number of W limbs.
Big(x, W) == [j \in 1..W |-> IF j = 1 THEN x % Base
                             ELSE IF j = 2 THEN x \div Base ELSE 0]

RECURSIVE MulCarry(_, _, _, _)
MulCarry(x, a, c, j) ==
    IF j > Len(x) THEN <<>>
    ELSE LET s == x[j] * a + c
         IN  <<s % Base>> \o MulCarry(x, a, s \div Base, j + 1)

\* (x * a + c) mod Base^Len(x), for a < 2^15 and c < 2^15.
MulSmall(x, a, c) == MulCarry(x, a, c, 1)

RECURSIVE AddCarry(_, _, _, _)
AddCarry(x, y, c, j) ==
    IF j > Len(x) THEN <<>>
    ELSE LET s == x[j] + y[j] + c
         IN  <<s % Base>> \o AddCarry(x, y, s \div Base, j + 1)

\* (x + y) mod Base^Len(x).
AddBig(x, y) == AddCarry(x, y, 0, 1)

\* (x * Base) mod Base^Len(x).
ShiftLimb(x) == <<0>> \o SubSeq(x, 1, Len(x) - 1)

\* 1103515245 = LcgMulHi * 65536 + LcgMulLo
LcgMulLo == 20077

LcgMulHi == 16838

LcgInc == 12345

\* A recurrence that never leaves its seed.
LcgNextStuck(x) == x

\* k * 1103515245 + 12345 in the width of Key.
LcgNext(x) ==
    AddBig(MulSmall(x, LcgMulLo, LcgInc), ShiftLimb(MulSmall(x, LcgMulHi, 0)))

\* Key k = 1 for a cursor of the linear congruential sequence.
KeyOne == Big(1, KeyLimbs)

(***************************************************************************)
(* The Table contract: set, get, remove on an associative array.           *)
(***************************************************************************)
EmptyTable == <<>>

\* Value(): what get returns for a key that is absent.
AbsentValue == 0

TableSet(t, key, val) == (key :> val) @@ t

TableGet(t, key) == IF key \in DOMAIN t THEN t[key] ELSE AbsentValue

\* remove's result: true iff an entry existed.
TableHas(t, key) == key \in DOMAIN t

\* remove's effect on the table.
TableErase(t, key) == [x \in DOMAIN t \ {key} |-> t[x]]

SetOp(key, val) == <<"set", key, val>>

GetOp(key) == <<"get", key>>

RemoveOp(key) == <<"remove", key>>


(***************************************************************************)
(* The idle values of the parts a specification does not run.              *)
(***************************************************************************)
TrialsIdle ==
    /\ dt = 0
    /\ estimated_speed = <<>>
    /\ calib = {}
    /\ monotone = TRUE
    /\ samples = <<>>
    /\ conv = "none"

MainIdle ==
    /\ argv = <<>>
    /\ sparsehash = FALSE
    /\ stack = <<>>
    /\ out = <<>>
    /\ err = <<>>
    /\ status = "running"

SpaceIdle ==
    /\ opt = "none"
    /\ ht0 = <<>>
    /\ ht1 = <<>>
    /\ ht2 = <<>>

MeasureIdle ==
    /\ impl = "none"
    /\ events = <<>>
    /\ peer = <<>>
    /\ agree = TRUE
    /\ fault = FALSE

WorkloadIdle ==
    /\ test = "none"
    /\ n = 0
    /\ pc = "idle"
    /\ i = 0
    /\ nloc = 0
    /\ k = 0
    /\ r = 0
    /\ w = 0
    /\ table = <<>>
    /\ ops = <<>>

(***************************************************************************)
(* WorklistTest                                                            *)
(***************************************************************************)
\* for (int i = 0; i < 700; i++)
Prefill == 700

MaxWorklistN == 4

WorklistInit ==
    /\ test = "WorklistTest"
    /\ n \in 0..MaxWorklistN
    /\ pc = "setup"
    /\ nloc = n
    /\ i = 0
    /\ k = 0
    /\ r = KeyOne
    /\ w = KeyOne
    /\ table = EmptyTable
    /\ ops = <<>>
    /\ TrialsIdle /\ MainIdle /\ SpaceIdle /\ MeasureIdle

\* One iteration of the prefill loop of setup.
WorklistSetupStep ==
    /\ test = "WorklistTest" /\ pc = "setup" /\ i < Prefill
    /\ table' = TableSet(table, w, w)
    /\ ops' = Append(ops, SetOp(w, w))
    /\ w' = LcgNext(w)
    /\ i' = i + 1
    /\ UNCHANGED <<test, n, pc, nloc, k, r>>
    /\ UNCHANGED <<tvars, mvars, svars, xvars>>

\* setup returns; measure_single_run calls run(n).
WorklistSetupDone ==
    /\ test = "WorklistTest" /\ pc = "setup" /\ i >= Prefill
    /\ pc' = IF n > 0 THEN "run_set" ELSE "done"
    /\ i' = 0
    /\ UNCHANGED <<test, n, nloc, k, r, w, table, ops>>
    /\ UNCHANGED <<tvars, mvars, svars, xvars>>

\* table.set(w, w); w = w * 1103515245 + 12345;
WorklistRunSet ==
    /\ test = "WorklistTest" /\ pc = "run_set"
    /\ table' = TableSet(table, w, w)
    /\ ops' = Append(ops, SetOp(w, w))
    /\ w' = LcgNext(w)
    /\ pc' = "run_remove"
    /\ UNCHANGED <<test, n, nloc, i, k, r>>
    /\ UNCHANGED <<tvars, mvars, svars, xvars>>

\* A run loop that forgets to advance the read cursor.
WorklistRunRemoveStuck ==
    /\ test = "WorklistTest" /\ pc = "run_remove"
    /\ ops' = Append(ops, RemoveOp(r))
    /\ table' = TableErase(table, r)
    /\ IF TableHas(table, r)
       THEN /\ i' = i + 1
            /\ pc' = IF i + 1 < n THEN "run_set" ELSE "done"
       ELSE /\ pc' = "abort"
            /\ UNCHANGED i
    /\ UNCHANGED <<test, n, nloc, k, r, w>>
    /\ UNCHANGED <<tvars, mvars, svars, xvars>>

\* if (!table.remove(r)) abort(); r = r * 1103515245 + 12345; i++
WorklistRunRemove ==
    /\ test = "WorklistTest" /\ pc = "run_remove"
    /\ ops' = Append(ops, RemoveOp(r))
    /\ table' = TableErase(table, r)
    /\ IF TableHas(table, r)
       THEN /\ r' = LcgNext(r)
            /\ i' = i + 1
            /\ pc' = IF i + 1 < n THEN "run_set" ELSE "done"
       ELSE /\ pc' = "abort"
            /\ UNCHANGED <<r, i>>
    /\ UNCHANGED <<test, n, nloc, k, w>>
    /\ UNCHANGED <<tvars, mvars, svars, xvars>>

WorklistNext ==
    \/ WorklistSetupStep
    \/ WorklistSetupDone
    \/ WorklistRunSet
    \/ WorklistRunRemove

WorklistSpec == WorklistInit /\ [][WorklistNext]_vars

\* The keys of the set operations of a log, in order.
SetKeys(log) ==
    LET sets == SelectSeq(log, LAMBDA o : o[1] = "set")
    IN  [j \in 1..Len(sets) |-> sets[j][2]]

\* The keys of the remove operations of a log, in order.
RemoveKeys(log) ==
    LET removes == SelectSeq(log, LAMBDA o : o[1] = "remove")
    IN  [j \in 1..Len(removes) |-> removes[j][2]]

\* C1: WorklistTest removes keys in the order they were inserted: the j-th
\* remove takes the j-th key ever set, and it comes right after the
\* (700 + j)-th set, so that key went in 700 insertions before the insert of
\* the same iteration.
C1_WorklistFifo ==
    test = "WorklistTest" =>
        LET S == SetKeys(ops)
            R == RemoveKeys(ops)
        IN  /\ Len(R) <= Len(S)
            /\ \A j \in 1..Len(R) : R[j] = S[j]
            /\ \A p \in 1..Len(ops) :
                   ops[p][1] = "remove" =>
                       /\ p > Prefill
                       /\ (p - Prefill) % 2 = 0
                       /\ ops[p - 1] = SetOp(S[Prefill + (p - Prefill) \div 2],
                                             S[Prefill + (p - Prefill) \div 2])
                       /\ ops[p][2] = S[(p - Prefill) \div 2]
            /\ (pc = "done" => Len(R) = n /\ Len(S) = Prefill + n)

\* run(n) has returned after at least two iterations.
C1_Witness ==
    /\ test = "WorklistTest" /\ pc = "done" /\ n >= 2
    /\ Len(RemoveKeys(ops)) = n

(***************************************************************************)
(* LookupHitTest and LookupMissTest.  Their keys stay below 2 * M, so the  *)
(* arithmetic of k * 31 % M and k + M never wraps in the width of Key and  *)
(* plain integers model it.                                                *)
(***************************************************************************)
\* enum { M = 8675309 + 1 }
M == 8675310

LookupTests == {"LookupHitTest", "LookupMissTest"}

MaxLookupN == 381

\* Sizes below, at and above the length of the cycle of k * 31 % M.
LookupSizes == {x \in 0..MaxLookupN : x <= 2 \/ x >= MaxLookupN - 5}

\* k = k * 31 % M
MulNext(x) == (x * 31) % M

LookupInit ==
    /\ test \in LookupTests
    /\ n \in LookupSizes
    /\ pc = "setup"
    /\ nloc = n
    /\ i = 0
    /\ k = 1
    /\ r = 0
    /\ w = 0
    /\ table = EmptyTable
    /\ ops = <<>>
    /\ TrialsIdle /\ MainIdle /\ SpaceIdle /\ MeasureIdle

\* A setup loop that advances the key before it inserts it.
LookupSetupStepLate ==
    /\ test \in LookupTests /\ pc = "setup" /\ i < n
    /\ table' = TableSet(table, MulNext(k), MulNext(k))
    /\ ops' = Append(ops, SetOp(MulNext(k), MulNext(k)))
    /\ k' = MulNext(k)
    /\ IF MulNext(k) = 1
       THEN pc' = "setup_break" /\ UNCHANGED i
       ELSE i' = i + 1 /\ UNCHANGED pc
    /\ UNCHANGED <<test, n, nloc, r, w>>
    /\ UNCHANGED <<tvars, mvars, svars, xvars>>

\* table.set(k, k); k = k * 31 % M; if (k == 1) break;
LookupSetupStep ==
    /\ test \in LookupTests /\ pc = "setup" /\ i < n
    /\ table' = TableSet(table, k, k)
    /\ ops' = Append(ops, SetOp(k, k))
    /\ k' = MulNext(k)
    /\ IF MulNext(k) = 1
       THEN pc' = "setup_break" /\ UNCHANGED i
       ELSE i' = i + 1 /\ UNCHANGED pc
    /\ UNCHANGED <<test, n, nloc, r, w>>
    /\ UNCHANGED <<tvars, mvars, svars, xvars>>

\* The setup loop ends (i reached n, or break); run starts with Key k = 1.
LookupSetupDone ==
    /\ test \in LookupTests
    /\ \/ pc = "setup" /\ i >= n
       \/ pc = "setup_break"
    /\ pc' = "run"
    /\ k' = 1
    /\ i' = 0
    /\ UNCHANGED <<test, n, nloc, r, w, table, ops>>
    /\ UNCHANGED <<tvars, mvars, svars, xvars>>

\* if (table.get(k) != k) abort(); k = k * 31 % M;
LookupHitRunStep ==
    /\ test = "LookupHitTest" /\ pc = "run" /\ i < n
    /\ ops' = Append(ops, GetOp(k))
    /\ IF TableGet(table, k) # k
       THEN pc' = "abort" /\ UNCHANGED <<k, i>>
       ELSE k' = MulNext(k) /\ i' = i + 1 /\ UNCHANGED pc
    /\ UNCHANGED <<test, n, nloc, r, w, table>>
    /\ UNCHANGED <<tvars, mvars, svars, xvars>>

\* A miss loop that probes the key itself instead of key + M.
LookupMissRunStepNoOffset ==
    /\ test = "LookupMissTest" /\ pc = "run" /\ i < n
    /\ ops' = Append(ops, GetOp(k))
    /\ IF TableGet(table, k) # 0
       THEN pc' = "abort" /\ UNCHANGED <<k, i>>
       ELSE k' = MulNext(k) /\ i' = i + 1 /\ UNCHANGED pc
    /\ UNCHANGED <<test, n, nloc, r, w, table>>
    /\ UNCHANGED <<tvars, mvars, svars, xvars>>

\* if (table.get(k + M) != 0) abort(); k = k * 31 % M;
LookupMissRunStep ==
    /\ test = "LookupMissTest" /\ pc = "run" /\ i < n
    /\ ops' = Append(ops, GetOp(k + M))
    /\ IF TableGet(table, k + M) # 0
       THEN pc' = "abort" /\ UNCHANGED <<k, i>>
       ELSE k' = MulNext(k) /\ i' = i + 1 /\ UNCHANGED pc
    /\ UNCHANGED <<test, n, nloc, r, w, table>>
    /\ UNCHANGED <<tvars, mvars, svars, xvars>>

\* The run loop ends and run returns.
LookupRunDone ==
    /\ test \in LookupTests /\ pc = "run" /\ i >= n
    /\ pc' = "done"
    /\ UNCHANGED <<test, n, nloc, i, k, r, w, table, ops>>
    /\ UNCHANGED <<tvars, mvars, svars, xvars>>

LookupNext ==
    \/ LookupSetupStep
    \/ LookupSetupDone
    \/ LookupHitRunStep
    \/ LookupMissRunStep
    \/ LookupRunDone

LookupSpec == LookupInit /\ [][LookupNext]_vars

\* The keys of the get operations of a log, in order.
GetKeys(log) ==
    LET gets == SelectSeq(log, LAMBDA o : o[1] = "get")
    IN  [j \in 1..Len(gets) |-> gets[j][2]]

\* C2: in LookupHitTest every key run probes was inserted by setup with
\* itself as value, so no lookup fails and run never aborts, also when n
\* exceeds the cycle of k * 31 % M and setup stopped early; and the keys
\* setup inserts are pairwise distinct.
C2_LookupHitConsistent ==
    test = "LookupHitTest" =>
        /\ pc # "abort"
        /\ Cardinality(DOMAIN table) = Len(SetKeys(ops))
        /\ \A key \in DOMAIN table : table[key] = key
        /\ LET G == GetKeys(ops)
           IN  /\ \A j \in 1..Len(G) : G[j] \in DOMAIN table
               /\ (pc = "done" => Len(G) = n)
        /\ (pc = "run" /\ i < n => k \in DOMAIN table)

\* run(n) has returned for an n beyond the cycle: setup had stopped early.
C2_Witness ==
    /\ test = "LookupHitTest" /\ pc = "done"
    /\ Cardinality(DOMAIN table) < n
    /\ Len(GetKeys(ops)) = n

\* C3: in LookupMissTest every inserted key lies in 1..M-1 and every probed
\* key is k + M with k in 1..M-1, so no probed key is in the table, every
\* lookup reports absent and run never aborts.
C3_LookupMissAbsent ==
    test = "LookupMissTest" =>
        /\ pc # "abort"
        /\ \A key \in DOMAIN table : key \in 1..(M - 1)
        /\ LET G == GetKeys(ops)
           IN  /\ \A j \in 1..Len(G) :
                      /\ G[j] - M \in 1..(M - 1)
                      /\ G[j] \notin DOMAIN table
                      /\ TableGet(table, G[j]) = AbsentValue
               /\ (pc = "done" => Len(G) = n)

\* run(n) has returned after probing more keys than the table holds.
C3_Witness ==
    /\ test = "LookupMissTest" /\ pc = "done"
    /\ Cardinality(DOMAIN table) < n
    /\ Len(GetKeys(ops)) = n

(***************************************************************************)
(* DeleteTest.  n stays far below the width of size_t and of Key here, so  *)
(* plain integers model n++, (k + 7) % n and (k + 11) % n.                 *)
(***************************************************************************)
MaxDeleteN == 24

DeleteInit ==
    /\ test = "DeleteTest"
    /\ n \in 0..MaxDeleteN
    /\ pc = "setup_adjust"
    /\ nloc = n
    /\ i = 0
    /\ k = 0
    /\ r = 0
    /\ w = 0
    /\ table = EmptyTable
    /\ ops = <<>>
    /\ TrialsIdle /\ MainIdle /\ SpaceIdle /\ MeasureIdle

\* while (n % 7 == 0 || n % 11 == 0) n++;   (one iteration, in setup)
DeleteSetupAdjust ==
    /\ test = "DeleteTest" /\ pc = "setup_adjust"
    /\ nloc % 7 = 0 \/ nloc % 11 = 0
    /\ nloc' = nloc + 1
    /\ UNCHANGED <<test, n, pc, i, k, r, w, table, ops>>
    /\ UNCHANGED <<tvars, mvars, svars, xvars>>

\* The adjustment loop of setup ends; Key k = 0; i = 0.
DeleteSetupBegin ==
    /\ test = "DeleteTest" /\ pc = "setup_adjust"
    /\ ~(nloc % 7 = 0 \/ nloc % 11 = 0)
    /\ pc' = "setup"
    /\ k' = 0
    /\ i' = 0
    /\ UNCHANGED <<test, n, nloc, r, w, table, ops>>
    /\ UNCHANGED <<tvars, mvars, svars, xvars>>

\* table.set(k + 1, 0); k = (k + 7) % n;
DeleteSetupStep ==
    /\ test = "DeleteTest" /\ pc = "setup" /\ i < nloc
    /\ table' = TableSet(table, k + 1, 0)
    /\ ops' = Append(ops, SetOp(k + 1, 0))
    /\ k' = (k + 7) % nloc
    /\ i' = i + 1
    /\ UNCHANGED <<test, n, pc, nloc, r, w>>
    /\ UNCHANGED <<tvars, mvars, svars, xvars>>

\* setup returns; run(n) starts with the caller's n again.
DeleteSetupDone ==
    /\ test = "DeleteTest" /\ pc = "setup" /\ i >= nloc
    /\ pc' = "run_adjust"
    /\ nloc' = n
    /\ UNCHANGED <<test, n, i, k, r, w, table, ops>>
    /\ UNCHANGED <<tvars, mvars, svars, xvars>>

\* while (n % 7 == 0 || n % 11 == 0) n++;   (one iteration, in run)
DeleteRunAdjust ==
    /\ test = "DeleteTest" /\ pc = "run_adjust"
    /\ nloc % 7 = 0 \/ nloc % 11 = 0
    /\ nloc' = nloc + 1
    /\ UNCHANGED <<test, n, pc, i, k, r, w, table, ops>>
    /\ UNCHANGED <<tvars, mvars, svars, xvars>>

\* The adjustment loop of run ends; Key k = 0; i = 0.
DeleteRunBegin ==
    /\ test = "DeleteTest" /\ pc = "run_adjust"
    /\ ~(nloc % 7 = 0 \/ nloc % 11 = 0)
    /\ pc' = "run"
    /\ k' = 0
    /\ i' = 0
    /\ UNCHANGED <<test, n, nloc, r, w, table, ops>>
    /\ UNCHANGED <<tvars, mvars, svars, xvars>>

\* A removal walk that wraps at the caller's n, not at the adjusted size.
DeleteRunStepUnadjusted ==
    /\ test = "DeleteTest" /\ pc = "run" /\ i < nloc
    /\ ops' = Append(ops, RemoveOp(k + 1))
    /\ table' = TableErase(table, k + 1)
    /\ IF TableHas(table, k + 1)
       THEN k' = (k + 11) % (IF n = 0 THEN 1 ELSE n) /\ i' = i + 1 /\ UNCHANGED pc
       ELSE pc' = "abort" /\ UNCHANGED <<k, i>>
    /\ UNCHANGED <<test, n, nloc, r, w>>
    /\ UNCHANGED <<tvars, mvars, svars, xvars>>

\* if (!table.remove(k + 1)) abort(); k = (k + 11) % n;
DeleteRunStep ==
    /\ test = "DeleteTest" /\ pc = "run" /\ i < nloc
    /\ ops' = Append(ops, RemoveOp(k + 1))
    /\ table' = TableErase(table, k + 1)
    /\ IF TableHas(table, k + 1)
       THEN k' = (k + 11) % nloc /\ i' = i + 1 /\ UNCHANGED pc
       ELSE pc' = "abort" /\ UNCHANGED <<k, i>>
    /\ UNCHANGED <<test, n, nloc, r, w>>
    /\ UNCHANGED <<tvars, mvars, svars, xvars>>

\* The removal loop ends and run returns.
DeleteRunDone ==
    /\ test = "DeleteTest" /\ pc = "run" /\ i >= nloc
    /\ pc' = "done"
    /\ UNCHANGED <<test, n, nloc, i, k, r, w, table, ops>>
    /\ UNCHANGED <<tvars, mvars, svars, xvars>>

DeleteNext ==
    \/ DeleteSetupAdjust
    \/ DeleteSetupBegin
    \/ DeleteSetupStep
    \/ DeleteSetupDone
    \/ DeleteRunAdjust
    \/ DeleteRunBegin
    \/ DeleteRunStep
    \/ DeleteRunDone

DeleteSpec == DeleteInit /\ [][DeleteNext]_vars

\* Neither 7 nor 11 divides x.
Coprime711(x) == x % 7 # 0 /\ x % 11 # 0

\* C4: DeleteTest's setup and run use the same adjusted size n', the smallest
\* n' >= n that neither 7 nor 11 divides; setup inserts the n' distinct keys
\* 1..n', run removes each of them exactly once, no removal fails, and the
\* table is empty when run returns.
C4_DeleteAllOnce ==
    test = "DeleteTest" =>
        LET np == CHOOSE x \in n..(n + 3) :
                      Coprime711(x) /\ \A y \in n..(x - 1) : ~Coprime711(y)
            S == SetKeys(ops)
            R == RemoveKeys(ops)
        IN  /\ pc # "abort"
            /\ pc \in {"setup", "run", "done"} => nloc = np
            /\ pc = "setup" =>
                   /\ Len(S) = i
                   /\ Cardinality(DOMAIN table) = i
                   /\ DOMAIN table \subseteq 1..np
            /\ pc \in {"run_adjust", "run", "done"} => Len(S) = np
            /\ pc = "run_adjust" => DOMAIN table = 1..np
            /\ pc = "run" =>
                   /\ Len(R) = i
                   /\ Cardinality({R[j] : j \in 1..Len(R)}) = i
                   /\ DOMAIN table = (1..np) \ {R[j] : j \in 1..Len(R)}
            /\ pc = "done" =>
                   /\ Len(R) = np
                   /\ {R[j] : j \in 1..Len(R)} = 1..np
                   /\ table = EmptyTable

\* run(n) has returned for an n that 7 divides, with every key removed.
C4_Witness ==
    /\ test = "DeleteTest" /\ pc = "done"
    /\ n >= 7 /\ n % 7 = 0
    /\ nloc > n
    /\ Len(RemoveKeys(ops)) = nloc
    /\ table = EmptyTable

(***************************************************************************)
(* run_time_trials.  Sizes are size_t, 64 bits wide, as four limbs.        *)
(* Durations are in milliseconds; estimated_speed and target_dt are kept   *)
(* as exact fractions <<numerator, denominator>>, so the model computes    *)
(* ceil(estimated_speed * target_dt) in exact arithmetic and leaves the    *)
(* rounding of double aside.  measure_single_run<Test>(n) is the           *)
(* environment: it returns any duration of Durations.                      *)
(***************************************************************************)
SizeLimbs == 4

\* const double min_run_seconds = 0.1, in milliseconds.
min_run_seconds == 100

\* const double max_run_seconds = 1.0, in milliseconds.
max_run_seconds == 1000

\* A duration below min_run_seconds.
DtLow == 50

\* A duration between min_run_seconds and max_run_seconds.
DtHigh == 400

\* What a measurement may return: below, at and above the threshold.
Durations == {DtLow, min_run_seconds, DtHigh}

TrialTests == {"GoodTest", "SquirrelyTest"}

\* GoodTest::trials() and SquirrelyTest::trials().
Trials(t) == IF t = "GoodTest" THEN 10 ELSE 25

ZeroSize == Big(0, SizeLimbs)

\* 2^j as a size_t, for j in 0..63.
Pow2(j) == [l \in 1..SizeLimbs |-> IF l = (j \div 16) + 1 THEN 2 ^ (j % 16) ELSE 0]

RECURSIVE LessFrom(_, _, _)
LessFrom(x, y, j) ==
    IF j = 0 THEN FALSE
    ELSE IF x[j] # y[j] THEN x[j] < y[j]
    ELSE LessFrom(x, y, j - 1)

\* x < y and x <= y on numbers of the same number of limbs.
LessBig(x, y) == LessFrom(x, y, Len(x))

LessEqBig(x, y) == x = y \/ LessBig(x, y)

\* A loop header that does not grow n.
DoubleStuck(x) == x

\* n *= 2 in the width of size_t.
Double(x) == MulSmall(x, 2, 0)

\* x widened by two limbs, for a product that exceeds the width of size_t.
Wide(x) == x \o <<0, 0>>

RECURSIVE DivCarry(_, _, _, _)
\* <<the limbs 1..j of the quotient, the remainder>> of dividing by d the
\* number whose limbs above j left the remainder rem.
DivCarry(x, d, j, rem) ==
    IF j = 0 THEN <<<<>>, rem>>
    ELSE LET cur == rem * Base + x[j]
             rest == DivCarry(x, d, j - 1, cur % d)
         IN  <<Append(rest[1], cur \div d), rest[2]>>

\* ceil(x / d) for a number x of limbs and 0 < d < 2^15.
CeilDiv(x, d) ==
    LET qr == DivCarry(x, d, Len(x), 0)
    IN  IF qr[2] = 0 THEN qr[1] ELSE AddBig(qr[1], Big(1, Len(x)))

\* min_run_seconds + double(i) / (trials - 1) * (max_run_seconds - min_run_seconds)
TargetDt(j, t) ==
    <<min_run_seconds * (t - 1) + j * (max_run_seconds - min_run_seconds), t - 1>>

\* ceil(estimated_speed * target_dt), as a number of SizeLimbs + 2 limbs.
CeilProduct(speed, target) ==
    CeilDiv(MulSmall(Wide(speed[1]), target[1], 0), speed[2] * target[2])

\* Whether a wide number is below 2^64.
FitsSize(x) == \A l \in (SizeLimbs + 1)..Len(x) : x[l] = 0

\* size_t(x) of a double outside the range of size_t is undefined; builds
\* yield 0, 2^63 or 2^64 - 1 there.
ConvOutcomes == {"zero", "top_bit", "saturate"}

OutOfRange(c) ==
    IF c = "zero" THEN ZeroSize
    ELSE IF c = "top_bit" THEN Pow2(63)
    ELSE [l \in 1..SizeLimbs |-> Base - 1]

\* size_t(x)
ToSize(x, c) == IF FitsSize(x) THEN SubSeq(x, 1, SizeLimbs) ELSE OutOfRange(c)

TrialsInit ==
    /\ test \in TrialTests
    /\ pc = "calibrate"
    /\ n = Big(1, SizeLimbs)
    /\ i = 0
    /\ dt = 0
    /\ estimated_speed = <<>>
    /\ calib = {}
    /\ monotone = TRUE
    /\ samples = <<>>
    /\ conv \in ConvOutcomes
    /\ nloc = ZeroSize
    /\ k = 0 /\ r = 0 /\ w = 0 /\ table = <<>> /\ ops = <<>>
    /\ MainIdle /\ SpaceIdle /\ MeasureIdle

\* Whether the measurement (size, d) fits, with those of measured, a cost
\* that does not decrease with the size.
FitsCost(measured, size, d) ==
    \A m \in measured :
        /\ LessEqBig(m[1], size) => m[2] <= d
        /\ LessEqBig(size, m[1]) => d <= m[2]

\* The calibration loop calls measure_single_run<Test>(n).
CalibrateCall ==
    /\ pc = "calibrate"
    /\ pc' = "calibrate_measure"
    /\ UNCHANGED <<test, n, i, tvars, wvars, mvars, svars, xvars>>

\* A calibration loop that wants dt above the threshold, not at it.
CalibrateReturnStrict ==
    /\ pc = "calibrate_measure"
    /\ \E d \in Durations :
           /\ dt' = d
           /\ calib' = calib \cup {<<n, d>>}
           /\ monotone' = (monotone /\ FitsCost(calib, n, d))
           /\ IF d > min_run_seconds
              THEN /\ estimated_speed' = <<n, d>>
                   /\ pc' = "trials"
                   /\ i' = 0
                   /\ UNCHANGED n
              ELSE /\ n' = Double(n)
                   /\ pc' = "calibrate"
                   /\ UNCHANGED <<estimated_speed, i>>
    /\ UNCHANGED <<test, samples, conv, wvars, mvars, svars, xvars>>

\* measure_single_run returns dt;
\* if (dt >= min_run_seconds) { estimated_speed = n / dt; break; }  n *= 2
CalibrateReturn ==
    /\ pc = "calibrate_measure"
    /\ \E d \in Durations :
           /\ dt' = d
           /\ calib' = calib \cup {<<n, d>>}
           /\ monotone' = (monotone /\ FitsCost(calib, n, d))
           /\ IF d >= min_run_seconds
              THEN /\ estimated_speed' = <<n, d>>
                   /\ pc' = "trials"
                   /\ i' = 0
                   /\ UNCHANGED n
              ELSE /\ n' = Double(n)
                   /\ pc' = "calibrate"
                   /\ UNCHANGED <<estimated_speed, i>>
    /\ UNCHANGED <<test, samples, conv, wvars, mvars, svars, xvars>>

\* The trial loop computes target_dt and its own n, and calls
\* measure_single_run<Test>(n).
TrialCall ==
    /\ pc = "trials" /\ i < Trials(test)
    /\ nloc' = ToSize(CeilProduct(estimated_speed, TargetDt(i, Trials(test))), conv)
    /\ pc' = "trial_measure"
    /\ UNCHANGED <<test, n, i, tvars, k, r, w, table, ops, mvars, svars, xvars>>

\* measure_single_run returns dt; the row [n, dt] is printed; i++
TrialReturn ==
    /\ pc = "trial_measure"
    /\ \E d \in Durations : dt' = d
    /\ samples' = Append(samples, <<TargetDt(i, Trials(test)), nloc>>)
    /\ i' = i + 1
    /\ pc' = "trials"
    /\ UNCHANGED <<test, n, estimated_speed, calib, monotone, conv, wvars, mvars, svars, xvars>>

\* The trial loop ends; run_time_trials prints the closing bracket.
TrialsDone ==
    /\ pc = "trials" /\ i >= Trials(test)
    /\ pc' = "done"
    /\ UNCHANGED <<test, n, i, tvars, wvars, mvars, svars, xvars>>

TrialsNext ==
    \/ CalibrateCall
    \/ CalibrateReturn
    \/ TrialCall
    \/ TrialReturn
    \/ TrialsDone

TrialsSpec == TrialsInit /\ [][TrialsNext]_vars

\* The calibration loop does not stop between two statements: a call of
\* measure_single_run returns, and the loop goes on to its next attempt.
FairTrialsSpec ==
    TrialsSpec /\ WF_vars(CalibrateCall) /\ WF_vars(CalibrateReturn)

\* The calibration measurements so far fit a cost that does not decrease
\* with the size.
CostNonDecreasing == monotone

CalibSizes == {m[1] : m \in calib}

\* Calibration has left its loop.
Calibrated == pc \in {"trials", "trial_measure", "done"}

\* C5: calibration measures the sizes 1, 2, 4, ... in that order and stops
\* at the first size whose duration reaches min_run_seconds, with
\* estimated_speed = n / dt; for a workload of non-decreasing cost every
\* size measured before it, n / 2 in particular, stayed below the threshold.
C5_CalibrationStops ==
    /\ monotone = (\A a \in calib : \A b \in calib :
                        LessEqBig(a[1], b[1]) => a[2] <= b[2])
    /\ pc \in {"calibrate", "calibrate_measure"} =>
           \A m \in calib : m[2] < min_run_seconds
    /\ pc \in {"calibrate", "calibrate_measure"} =>
           \A j \in 0..63 : n = Pow2(j) => CalibSizes = {Pow2(a) : a \in 0..(j - 1)}
    /\ (Calibrated /\ CostNonDecreasing) =>
           \E j \in 0..63 :
               /\ n = Pow2(j)
               /\ CalibSizes = {Pow2(a) : a \in 0..j}
               /\ \A m \in calib : m[1] # n => m[2] < min_run_seconds
               /\ \E d \in Durations :
                      /\ d >= min_run_seconds
                      /\ <<n, d>> \in calib
                      /\ estimated_speed = <<n, d>>
               /\ j > 0 => \E m \in calib :
                               m[1] = Pow2(j - 1) /\ Double(m[1]) = n
                               /\ m[2] < min_run_seconds

\* Calibration has stopped at size 32 after five attempts below the threshold.
C5_Witness ==
    /\ pc = "trials" /\ CostNonDecreasing
    /\ n = Pow2(5)
    /\ estimated_speed = <<n, DtHigh>>
    /\ Cardinality(calib) = 6

\* Every size 1, 2, 4, ..., 2^63 measured below the threshold and n has
\* wrapped to 0.
Wrapped ==
    /\ pc \in {"calibrate", "calibrate_measure"} /\ n = ZeroSize
    /\ \A j \in 0..63 : \E m \in calib : m[1] = Pow2(j) /\ m[2] < min_run_seconds

\* C6 as stated: for a workload of non-decreasing cost the doubling loop
\* always leaves calibration.
C6_AlwaysTerminates == <>(~CostNonDecreasing \/ Calibrated)

\* C6 as amended: the loop leaves calibration or, when no size 2^0..2^63
\* reaches the threshold, n wraps to 0; from there a workload of
\* non-decreasing cost never leaves calibration.
C6_TerminatesOrWraps ==
    /\ <>(Calibrated \/ Wrapped)
    /\ [][(Wrapped /\ CostNonDecreasing') => ~Calibrated']_vars

\* Calibration has stopped at 2^63, the last size before n wraps.
C6_Witness ==
    /\ pc = "trials" /\ CostNonDecreasing
    /\ n = Pow2(63)
    /\ Cardinality(calib) = 64

\* C7 as stated: exactly trials() measurements follow calibration; the
\* target of trial j is min_run_seconds + j / (trials - 1) *
\* (max_run_seconds - min_run_seconds), targets strictly increase from
\* min_run_seconds to max_run_seconds, and every measured size is
\* ceil(estimated_speed * target): the least integer s with
\* s * dt * (trials - 1) >= n * target numerator.
C7_TrialSchedule ==
    Calibrated =>
        LET T == Trials(test)
        IN  /\ Len(samples) = i
            /\ pc = "done" => Len(samples) = T
            /\ \A j \in 1..Len(samples) :
                   LET tg == samples[j][1]
                       sz == samples[j][2]
                       D == estimated_speed[2] * tg[2]
                       N == MulSmall(Wide(estimated_speed[1]), tg[1], 0)
                       sD == MulSmall(Wide(sz), D, 0)
                   IN  /\ tg[1] * (T - 1) =
                              tg[2] * (min_run_seconds * (T - 1)
                                       + (j - 1) * (max_run_seconds - min_run_seconds))
                       /\ LessEqBig(N, sD)
                       /\ LessBig(sD, AddBig(N, Big(D, SizeLimbs + 2)))
            /\ \A j \in 1..(Len(samples) - 1) :
                   samples[j][1][1] * samples[j + 1][1][2]
                       < samples[j + 1][1][1] * samples[j][1][2]
            /\ Len(samples) >= 1 =>
                   samples[1][1][1] = min_run_seconds * samples[1][1][2]
            /\ pc = "done" =>
                   samples[T][1][1] = max_run_seconds * samples[T][1][2]

\* C8 as stated: no sample of the trial phase has size 0, and the sizes of
\* consecutive samples do not decrease.
C8_NoDegenerateSample ==
    /\ \A j \in 1..Len(samples) : samples[j][2] # ZeroSize
    /\ \A j \in 1..(Len(samples) - 1) : LessEqBig(samples[j][2], samples[j + 1][2])

(***************************************************************************)
(* main, run_one_speed_test, run_all_speed_tests, run_speed_test and       *)
(* measure_space.  Standard output and standard error are sequences of     *)
(* tokens: <<"text", s>> for a string written, <<"series", Test, Table>>   *)
(* for what run_time_trials<Test<Table> >() writes (TrialsSpec is the      *)
(* model of that call), <<"row", ...>> for a line of measure_space.        *)
(* A function body is a sequence of statements, <<"print", s>>,            *)
(* <<"trials", Test, Table>> or <<"call", Test>>, carried out one by one.  *)
(***************************************************************************)
\* The names run_one_speed_test compares its argument with, in its order.
TestNames ==
    <<"InsertLargeTest", "InsertSmallTest", "LookupHitTest", "LookupMissTest",
      "WorklistTest", "DeleteTest", "LookupAfterDeleteTest",
      "InsertAfterDeleteTest">>

KnownNames == {TestNames[j] : j \in 1..Len(TestNames)}

Text(str) == <<"text", str>>

PrintStmt(str) == <<"print", str>>

\* The body of run_speed_test<Test>.
SpeedTestBody(t, dense) ==
    <<PrintStmt("{\n")>>
    \o (IF dense
        THEN <<PrintStmt("\t\"DenseTable\": "), <<"trials", t, "DenseTable">>,
               PrintStmt(",\n")>>
        ELSE <<>>)
    \o <<PrintStmt("\t\"OpenTable\": "), <<"trials", t, "OpenTable">>,
         PrintStmt(",\n"),
         PrintStmt("\t\"CloseTable\": "), <<"trials", t, "CloseTable">>,
         PrintStmt("\n"),
         PrintStmt("}")>>

\* The body of run_all_speed_tests, statement by statement.
RunAllBody ==
    <<PrintStmt("{\n"),
      PrintStmt("\"InsertLargeTest\": "), <<"call", "InsertLargeTest">>,
      PrintStmt(",\n"),
      PrintStmt("\"InsertSmallTest\": "), <<"call", "InsertSmallTest">>,
      PrintStmt(",\n"),
      PrintStmt("\"LookupHitTest\": "), <<"call", "LookupHitTest">>,
      PrintStmt(",\n"),
      PrintStmt("\"LookupMissTest\": "), <<"call", "LookupMissTest">>,
      PrintStmt(",\n"),
      PrintStmt("\"WorklistTest\": "), <<"call", "WorklistTest">>,
      PrintStmt(",\n"),
      PrintStmt("\"DeleteTest\": "), <<"call", "DeleteTest">>,
      PrintStmt(",\n"),
      PrintStmt("\"LookupAfterDeleteTest\": "), <<"call", "LookupAfterDeleteTest">>,
      PrintStmt("\"InsertAfterDeleteTest\": "), <<"call", "InsertAfterDeleteTest">>,
      PrintStmt("}\n")>>

\* for (int i = 0; i < 100000; i++)
Steps == 100000

\* The model follows measure_space for this many iterations.
MaxSpaceSteps == 12

\* table.byte_size(opt): a footprint that depends on the policy and on the
\* state of the table and on nothing else.
ByteSize(t, o) == <<"byte_size", o, t>>

Frame(fn, arg, at) == [fn |-> fn, arg |-> arg, at |-> at]

Top == stack[Len(stack)]

Running(fn) == Len(stack) > 0 /\ Top.fn = fn /\ status = "running"

\* The stack with the top frame moved to position at.
Goto(at) == [stack EXCEPT ![Len(stack)].at = at]

Pop == SubSeq(stack, 1, Len(stack) - 1)

Argc == Len(argv)

\* The command lines of the model: argv[0] alone, each option, each test
\* name, names that are none of them, and two arguments.
CommandLines ==
    {<<"hashbench">>}
    \cup {<<"hashbench", a>> : a \in {"-m", "-w", "-x", "NoSuchTest", "lookuphittest", ""}}
    \cup {<<"hashbench", a>> : a \in KnownNames}
    \cup {<<"hashbench", "-m", "-w">>, <<"hashbench", "LookupHitTest", "DeleteTest">>}

MainInit ==
    /\ argv \in CommandLines
    /\ sparsehash \in BOOLEAN
    /\ stack = <<Frame("main", "", 1)>>
    /\ out = <<>>
    /\ err = <<>>
    /\ status = "running"
    /\ WorkloadIdle /\ TrialsIdle /\ SpaceIdle /\ MeasureIdle

\* argc == 2 && (argv[1] is "-m" or "-w"): measure_space(...)
MainSpace ==
    /\ Running("main") /\ Top.at = 1
    /\ Argc = 2 /\ argv[2] \in {"-m", "-w"}
    /\ opt' = IF argv[2] = "-m" THEN "BytesAllocated" ELSE "BytesWritten"
    /\ ht0' = EmptyTable /\ ht1' = EmptyTable /\ ht2' = EmptyTable
    /\ stack' = Append(Goto(2), Frame("measure_space", "print", 0))
    /\ UNCHANGED <<test, n, pc, i, wvars, tvars, xvars, argv, sparsehash, out, err, status>>

\* argc == 1: run_all_speed_tests()
MainAll ==
    /\ Running("main") /\ Top.at = 1
    /\ Argc = 1
    /\ stack' = Append(Goto(2), Frame("run_all_speed_tests", "", 1))
    /\ UNCHANGED <<test, n, pc, i, wvars, tvars, svars, xvars, argv, sparsehash, out, err, status>>

\* argc == 2: run_one_speed_test(argv[1])
MainOne ==
    /\ Running("main") /\ Top.at = 1
    /\ Argc = 2 /\ argv[2] \notin {"-m", "-w"}
    /\ stack' = Append(Goto(2), Frame("run_one_speed_test", argv[2], 1))
    /\ UNCHANGED <<test, n, pc, i, wvars, tvars, svars, xvars, argv, sparsehash, out, err, status>>

\* else: the usage message to cerr; return 1
MainUsage ==
    /\ Running("main") /\ Top.at = 1
    /\ Argc \notin {1, 2}
    /\ err' = Append(err, Text("usage"))
    /\ status' = "returned 1"
    /\ stack' = <<>>
    /\ UNCHANGED <<test, n, pc, i, wvars, tvars, svars, xvars, argv, sparsehash, out>>

\* return 0
MainReturn ==
    /\ Running("main") /\ Top.at = 2
    /\ status' = "returned 0"
    /\ stack' = <<>>
    /\ UNCHANGED <<test, n, pc, i, wvars, tvars, svars, xvars, argv, sparsehash, out, err>>

\* run_one_speed_test: the chain of strcmp; a known name calls
\* run_speed_test<name>, any other writes "No such test" to cerr and returns.
OneDispatch ==
    /\ Running("run_one_speed_test") /\ Top.at = 1
    /\ IF \E j \in 1..Len(TestNames) : Top.arg = TestNames[j]
       THEN /\ stack' = Append(Goto(2), Frame("run_speed_test", Top.arg, 1))
            /\ UNCHANGED err
       ELSE /\ err' = Append(err, Text("No such test: " \o Top.arg \o "\n"))
            /\ stack' = Pop
    /\ UNCHANGED <<test, n, pc, i, wvars, tvars, svars, xvars, argv, sparsehash, out, status>>

\* run_one_speed_test: cout << endl; and return.
OneEnd ==
    /\ Running("run_one_speed_test") /\ Top.at = 2
    /\ out' = Append(out, Text("\n"))
    /\ stack' = Pop
    /\ UNCHANGED <<test, n, pc, i, wvars, tvars, svars, xvars, argv, sparsehash, err, status>>

\* run_all_speed_tests: its next statement, or its return.
AllStep ==
    /\ Running("run_all_speed_tests")
    /\ IF Top.at > Len(RunAllBody)
       THEN stack' = Pop /\ UNCHANGED out
       ELSE LET stmt == RunAllBody[Top.at]
            IN  IF stmt[1] = "print"
                THEN /\ out' = Append(out, Text(stmt[2]))
                     /\ stack' = Goto(Top.at + 1)
                ELSE /\ stack' = Append(Goto(Top.at + 1),
                                        Frame("run_speed_test", stmt[2], 1))
                     /\ UNCHANGED out
    /\ UNCHANGED <<test, n, pc, i, wvars, tvars, svars, xvars, argv, sparsehash, err, status>>

\* run_speed_test<Test>: its next statement, or its return.
SpeedStep ==
    /\ Running("run_speed_test")
    /\ LET body == SpeedTestBody(Top.arg, sparsehash)
       IN  IF Top.at > Len(body)
           THEN stack' = Pop /\ UNCHANGED out
           ELSE /\ out' = Append(out, IF body[Top.at][1] = "print"
                                      THEN Text(body[Top.at][2])
                                      ELSE <<"series", body[Top.at][2], body[Top.at][3]>>)
                /\ stack' = Goto(Top.at + 1)
    /\ UNCHANGED <<test, n, pc, i, wvars, tvars, svars, xvars, argv, sparsehash, err, status>>

\* A row that reports the tables as they are after the insertion of j + 1.
SpaceRowAfterInsert(j) ==
    <<"row", j, IF sparsehash THEN ByteSize(TableSet(ht0, j + 1, j), opt) ELSE 1,
      ByteSize(TableSet(ht1, j + 1, j), opt), ByteSize(TableSet(ht2, j + 1, j), opt)>>

\* The row measure_space prints in iteration j.
SpaceRow(j) ==
    <<"row", j, IF sparsehash THEN ByteSize(ht0, opt) ELSE 1,
      ByteSize(ht1, opt), ByteSize(ht2, opt)>>

\* measure_space: cout << i << byte sizes << endl;
SpacePrint ==
    /\ Running("measure_space") /\ Top.arg = "print"
    /\ Top.at < Steps /\ Top.at < MaxSpaceSteps
    /\ out' = Append(out, SpaceRow(Top.at))
    /\ stack' = [stack EXCEPT ![Len(stack)].arg = "insert"]
    /\ UNCHANGED <<test, n, pc, i, wvars, tvars, svars, xvars, argv, sparsehash, err, status>>

\* measure_space: ht0.set(i + 1, i); ht1.set(i + 1, i); ht2.set(i + 1, i); i++
SpaceInsert ==
    /\ Running("measure_space") /\ Top.arg = "insert"
    /\ ht0' = IF sparsehash THEN TableSet(ht0, Top.at + 1, Top.at) ELSE ht0
    /\ ht1' = TableSet(ht1, Top.at + 1, Top.at)
    /\ ht2' = TableSet(ht2, Top.at + 1, Top.at)
    /\ stack' = [stack EXCEPT ![Len(stack)].arg = "print",
                              ![Len(stack)].at = Top.at + 1]
    /\ UNCHANGED <<test, n, pc, i, wvars, tvars, xvars, opt, argv, sparsehash, out, err, status>>

MainNext ==
    \/ MainSpace
    \/ MainAll
    \/ MainOne
    \/ MainUsage
    \/ MainReturn
    \/ OneDispatch
    \/ OneEnd
    \/ AllStep
    \/ SpeedStep
    \/ SpacePrint
    \/ SpaceInsert

MainSpec == MainInit /\ [][MainNext]_vars

\* The command line has one argument that is no option and no test name.
UnknownName ==
    /\ Argc = 2
    /\ argv[2] \notin {"-m", "-w"}
    /\ argv[2] \notin KnownNames

\* C9 as stated: with one argument that is neither -m, -w nor one of the
\* eight test names, the error goes to standard error, nothing is written to
\* standard output, and the process exits with a status that is not 0.
C9_UnknownNameFails ==
    UnknownName =>
        /\ out = <<>>
        /\ status # "running" => (err # <<>> /\ status # "returned 0")

\* The rows of measure_space among what was written to standard output.
Rows == SelectSeq(out, LAMBDA tok : tok[1] = "row")

\* The table after set(1, 0), set(2, 1), ..., set(c, c - 1).
Filled(c) == [key \in 1..c |-> key - 1]

\* The table a footprint was taken of.
Measured(fp) == fp[3]

TableSize(t) == Cardinality(DOMAIN t)

\* C19: in WorklistTest the table holds 700 entries after setup and after
\* every iteration of run, 701 between the insert and the remove of an
\* iteration; no remove fails: the read cursor names a key that is in the
\* table, and the key at the write cursor is not yet in it.  The recurrence
\* has full period in the width of Key (multiplier = 1 mod 4, odd increment).
C19_WorklistOccupancy ==
    test = "WorklistTest" =>
        /\ LcgMulLo % 4 = 1 /\ LcgInc % 2 = 1
        /\ pc # "abort"
        /\ pc = "setup" => TableSize(table) = i
        /\ pc \in {"run_set", "done"} =>
               /\ TableSize(table) = Prefill
               /\ TableHas(table, r)
               /\ ~TableHas(table, w)
        /\ pc = "run_remove" =>
               /\ TableSize(table) = Prefill + 1
               /\ TableHas(table, r)

\* run(n) has returned after three iterations and the table holds 700 keys.
C19_Witness ==
    /\ test = "WorklistTest" /\ pc = "done" /\ n = 3
    /\ TableSize(table) = Prefill
    /\ Len(ops) = Prefill + 6

(***************************************************************************)
(* The report of run_all_speed_tests.                                      *)
(***************************************************************************)
\* The label of the j-th entry of the top-level mapping.
EntryLabel(j) == Text("\"" \o TestNames[j] \o "\": ")

\* Where the label of the j-th entry stands in standard output, 0 if nowhere.
LabelAt(j) ==
    IF \E p \in 1..Len(out) : out[p] = EntryLabel(j)
    THEN CHOOSE p \in 1..Len(out) : out[p] = EntryLabel(j)
    ELSE 0

\* Where the j-th entry ends: before the next label, or at the end of output.
EntryEnd(j) == IF j < Len(TestNames) THEN LabelAt(j + 1) - 1 ELSE Len(out)

\* C17 as stated: with no arguments the program writes one entry per test,
\* in the order of TestNames; each entry is the name followed by the
\* sub-report of that same test; every two consecutive entries are separated
\* by a comma.
C17_RunAllReport ==
    (Argc = 1 /\ status # "running") =>
        /\ \A j \in 1..Len(TestNames) :
               /\ LabelAt(j) > 0
               /\ Cardinality({p \in 1..Len(out) : out[p] = EntryLabel(j)}) = 1
               /\ \E p \in LabelAt(j)..EntryEnd(j) : out[p][1] = "series"
               /\ \A p \in LabelAt(j)..EntryEnd(j) :
                      out[p][1] = "series" => out[p][2] = TestNames[j]
        /\ \A j \in 1..(Len(TestNames) - 1) :
               /\ LabelAt(j) < LabelAt(j + 1)
               /\ out[LabelAt(j + 1) - 1] = Text(",\n")

(***************************************************************************)
(* measure_single_run<Test<Table> >(n) for each of the eight tests.        *)
(* setup(n) is one step; run(n) is one step per iteration of its loop.     *)
(* A Test instance is a record of its members table, r, w and of the       *)
(* locals n, i, k of the call of run in progress.  Keys that walk the      *)
(* linear congruential sequence are Keys of KeyLimbs limbs; the others     *)
(* stay below 2 * M and are plain integers.  The member errors of the      *)
(* lookup tests is written by setup and never read; it is left out.  The   *)
(* clock is gettimeofday (HAVE_GETTIMEOFDAY).                               *)
(***************************************************************************)
\* The Tables a Test is instantiated with.
Tables == {"OpenTable", "CloseTable"}

\* enum { Size = 50000 }
Size == 50000

\* What an uninitialized Key member can hold.
Garbage == {KeyOne, Big(40503, KeyLimbs)}

\* The tests whose local cursor k is a Key of the congruential sequence.
LcgTests == {"InsertLargeTest", "InsertSmallTest"}

\* The value of a cursor that is not live.
NoKey(t) == IF t \in LcgTests THEN Big(0, KeyLimbs) ELSE 0

\* Test test; the Table is constructed empty, r and w are not initialized.
Constructed(t, gr, gw) ==
    [table |-> EmptyTable,
     r |-> IF t = "WorklistTest" THEN gr ELSE 0,
     w |-> IF t = "WorklistTest" THEN gw ELSE 0,
     n |-> 0, i |-> 0, k |-> NoKey(t)]

(***************************************************************************)
(* The loops of setup.  Each Fill carries the iterations from..to - 1 of   *)
(* its loop over a tuple of the table, the operations issued and the       *)
(* cursor, one iteration after the other; a range of more than one         *)
(* iteration is carried out as its first half followed by its second half, *)
(* the first half being evaluated before the second is entered.            *)
(***************************************************************************)
RECURSIVE LookupFill(_, _, _)
\* The loop of LookupHitTest::setup and LookupMissTest::setup; the fourth
\* component tells that the loop has left through break.
LookupFill(st, from, to) ==
    IF from >= to THEN st
    ELSE IF to - from = 1
         THEN IF st[4] THEN st
              ELSE <<TableSet(st[1], st[3], st[3]),
                     Append(st[2], SetOp(st[3], st[3])),
                     MulNext(st[3]),
                     MulNext(st[3]) = 1>>
         ELSE LET half == LookupFill(st, from, from + (to - from) \div 2)
              IN  IF Len(half) = 4
                  THEN LookupFill(half, from + (to - from) \div 2, to)
                  ELSE half

RECURSIVE WorklistFill(_, _, _)
\* The loop of WorklistTest::setup.
WorklistFill(st, from, to) ==
    IF from >= to THEN st
    ELSE IF to - from = 1
         THEN <<TableSet(st[1], st[3], st[3]),
                Append(st[2], SetOp(st[3], st[3])),
                LcgNext(st[3])>>
         ELSE LET half == WorklistFill(st, from, from + (to - from) \div 2)
              IN  IF Len(half) = 3
                  THEN WorklistFill(half, from + (to - from) \div 2, to)
                  ELSE half

RECURSIVE DeleteAdjust(_)
\* while (n % 7 == 0 || n % 11 == 0) n++;
DeleteAdjust(x) == IF x % 7 = 0 \/ x % 11 = 0 THEN DeleteAdjust(x + 1) ELSE x

RECURSIVE DeleteFill(_, _, _, _)
\* The loop of DeleteTest::setup for the adjusted size sz.
DeleteFill(st, from, to, sz) ==
    IF from >= to THEN st
    ELSE IF to - from = 1
         THEN <<TableSet(st[1], st[3] + 1, 0),
                Append(st[2], SetOp(st[3] + 1, 0)),
                (st[3] + 7) % sz>>
         ELSE LET half == DeleteFill(st, from, from + (to - from) \div 2, sz)
              IN  IF Len(half) = 3
                  THEN DeleteFill(half, from + (to - from) \div 2, to, sz)
                  ELSE half

RECURSIVE IadFillAppending(_, _, _)
\* A loop that numbers its keys after the entries the table already holds.
IadFillAppending(st, from, to) ==
    IF from >= to THEN st
    ELSE IF to - from = 1
         THEN <<TableSet(st[1], TableSize(st[1]) + 1, st[3]),
                Append(st[2], SetOp(TableSize(st[1]) + 1, st[3])),
                st[3] + 1>>
         ELSE LET half == IadFillAppending(st, from, from + (to - from) \div 2)
              IN  IF Len(half) = 3
                  THEN IadFillAppending(half, from + (to - from) \div 2, to)
                  ELSE half

RECURSIVE IadFill(_, _, _)
\* The loop of InsertAfterDeleteTest::setup.
IadFill(st, from, to) ==
    IF from >= to THEN st
    ELSE IF to - from = 1
         THEN <<TableSet(st[1], st[3], st[3]),
                Append(st[2], SetOp(st[3], st[3])),
                st[3] + 1>>
         ELSE LET half == IadFill(st, from, from + (to - from) \div 2)
              IN  IF Len(half) = 3
                  THEN IadFill(half, from + (to - from) \div 2, to)
                  ELSE half

\* A setup that sets the keys 1..Size and removes none of them.
LadFillAll(tab) ==
    [x \in DOMAIN tab \cup (1..Size) |-> IF x \in 1..Size THEN x ELSE tab[x]]

\* LookupAfterDeleteTest::setup: set(i, i) for i = 1..Size, then remove(i)
\* for every i = 1..Size with (i & 0xff) != 0.
LadFill(tab) ==
    LET full == [x \in DOMAIN tab \cup (1..Size) |->
                     IF x \in 1..Size THEN x ELSE tab[x]]
        kept == {x \in DOMAIN full : ~(x \in 1..Size /\ x % 256 # 0)}
    IN  [x \in kept |-> full[x]]

\* The operations LookupAfterDeleteTest::setup issues: the j-th remove takes
\* the j-th of the numbers 1..Size that are no multiple of 256.
LadLog ==
    [j \in 1..Size |-> SetOp(j, j)]
    \o [j \in 1..(Size - Size \div 256) |-> RemoveOp(j + (j - 1) \div 255)]

\* An instance that keeps its cursors whatever setup is called.
SetupStateLazy(t, s, sz) ==
    CASE t \in {"LookupHitTest", "LookupMissTest"} ->
             [s EXCEPT !.table = LookupFill(<<s.table, <<>>, 1, FALSE>>, 0, sz)[1]]
      [] t = "WorklistTest" ->
             [s EXCEPT !.table = WorklistFill(<<s.table, <<>>, s.w>>, 0, Prefill)[1],
                       !.w = WorklistFill(<<s.table, <<>>, s.w>>, 0, Prefill)[3]]
      [] t = "DeleteTest" ->
             [s EXCEPT !.table = DeleteFill(<<s.table, <<>>, 0>>, 0, DeleteAdjust(sz), DeleteAdjust(sz))[1]]
      [] t = "LookupAfterDeleteTest" -> [s EXCEPT !.table = LadFill(s.table)]
      [] t = "InsertAfterDeleteTest" ->
             [s EXCEPT !.table = IadFill(<<s.table, <<>>, 1>>, 0, sz)[1]]
      [] OTHER -> s

\* test.setup(sz): the instance s after the call.
SetupState(t, s, sz) ==
    CASE t \in {"LookupHitTest", "LookupMissTest"} ->
             [s EXCEPT !.table = LookupFill(<<s.table, <<>>, 1, FALSE>>, 0, sz)[1]]
      [] t = "WorklistTest" ->
             [s EXCEPT !.table = WorklistFill(<<s.table, <<>>, KeyOne>>, 0, Prefill)[1],
                       !.r = KeyOne,
                       !.w = WorklistFill(<<s.table, <<>>, KeyOne>>, 0, Prefill)[3]]
      [] t = "DeleteTest" ->
             [s EXCEPT !.table = DeleteFill(<<s.table, <<>>, 0>>, 0, DeleteAdjust(sz), DeleteAdjust(sz))[1]]
      [] t = "LookupAfterDeleteTest" -> [s EXCEPT !.table = LadFill(s.table)]
      [] t = "InsertAfterDeleteTest" ->
             [s EXCEPT !.table = IadFill(<<s.table, <<>>, 1>>, 0, sz)[1]]
      [] OTHER -> s

\* test.setup(sz): the Table operations the call issues.
SetupLog(t, s, sz) ==
    CASE t \in {"LookupHitTest", "LookupMissTest"} ->
             LookupFill(<<s.table, <<>>, 1, FALSE>>, 0, sz)[2]
      [] t = "WorklistTest" -> WorklistFill(<<s.table, <<>>, KeyOne>>, 0, Prefill)[2]
      [] t = "DeleteTest" -> DeleteFill(<<s.table, <<>>, 0>>, 0, DeleteAdjust(sz), DeleteAdjust(sz))[2]
      [] t = "LookupAfterDeleteTest" -> LadLog
      [] t = "InsertAfterDeleteTest" -> IadFill(<<s.table, <<>>, 1>>, 0, sz)[2]
      [] OTHER -> <<>>

\* The entry of run(sz): its parameter n and the initial values of i and k.
RunEnter(t, s, sz) ==
    [s EXCEPT !.n = IF t = "DeleteTest" THEN DeleteAdjust(sz) ELSE sz,
              !.i = IF t = "LookupAfterDeleteTest" THEN 1 ELSE 0,
              !.k = CASE t \in LcgTests -> KeyOne
                      [] t \in {"LookupHitTest", "LookupMissTest",
                                "InsertAfterDeleteTest"} -> 1
                      [] OTHER -> 0]

\* The condition of the loop of run.
RunMore(t, s) ==
    CASE t = "InsertSmallTest" -> s.n # 0
      [] t = "LookupAfterDeleteTest" -> s.i <= s.n
      [] OTHER -> s.i < s.n

\* How the Table answers: "ok" as its contract says, "wrong" against it.
Answers == {"ok", "wrong"}

\* What table.get(key) returns.
GetResult(tab, key, f) ==
    IF f = "wrong" THEN TableGet(tab, key) + 1 ELSE TableGet(tab, key)

\* What table.remove(key) returns.
RemoveResult(tab, key, f) ==
    IF f = "wrong" THEN FALSE ELSE TableHas(tab, key)

\* Operations with the result the Table gave.
GotOp(key, val) == <<"get", key, val>>

RemovedOp(key, found) == <<"remove", key, found>>

\* A Table is constructed; a Table that got count inserts is destroyed.
NewOp == <<"new">>

CloseOp(count) == <<"close", count>>

\* k % d for a Key k and 0 < d < 2^15.
KeyMod(x, d) == DivCarry(x, d, Len(x), 0)[2]

\* The outcome of an iteration: the instance after it, the operations
\* issued, whether it called abort(), whether the Table answered against its
\* contract.
Outcome(s, log, aborted, bad) ==
    [st |-> s, ops |-> log, aborted |-> aborted, bad |-> bad]

\* InsertLargeTest::run, one iteration.
InsertLargeIter(s) ==
    Outcome([s EXCEPT !.table = TableSet(s.table, s.k, s.k),
                      !.k = LcgNext(s.k), !.i = s.i + 1],
            <<SetOp(s.k, s.k)>>, FALSE, FALSE)

\* An inner loop that goes on while k % 145 == 0.
InsertSmallIterInverted(s) ==
    LET fresh == s.i = 0
        more == s.n - 1 # 0 /\ KeyMod(LcgNext(s.k), 145) = 0
    IN  Outcome([s EXCEPT !.table = IF more
                                    THEN TableSet(IF fresh THEN EmptyTable ELSE s.table,
                                                  s.k, s.k)
                                    ELSE EmptyTable,
                          !.k = LcgNext(s.k),
                          !.n = s.n - 1,
                          !.i = IF more THEN s.i + 1 ELSE 0],
                (IF fresh THEN <<NewOp>> ELSE <<>>) \o <<SetOp(s.k, s.k)>>
                    \o (IF more THEN <<>> ELSE <<CloseOp(s.i + 1)>>),
                FALSE, FALSE)

\* InsertSmallTest::run, one iteration of the inner loop; i counts the
\* inserts into the Table of the outer iteration in progress, which is
\* constructed when i = 0 and destroyed when the inner loop ends.
InsertSmallIter(s) ==
    LET fresh == s.i = 0
        more == s.n - 1 # 0 /\ KeyMod(LcgNext(s.k), 145) # 0
    IN  Outcome([s EXCEPT !.table = IF more
                                    THEN TableSet(IF fresh THEN EmptyTable ELSE s.table,
                                                  s.k, s.k)
                                    ELSE EmptyTable,
                          !.k = LcgNext(s.k),
                          !.n = s.n - 1,
                          !.i = IF more THEN s.i + 1 ELSE 0],
                (IF fresh THEN <<NewOp>> ELSE <<>>) \o <<SetOp(s.k, s.k)>>
                    \o (IF more THEN <<>> ELSE <<CloseOp(s.i + 1)>>),
                FALSE, FALSE)

\* LookupHitTest::run, one iteration.
LookupHitIter(s, f) ==
    LET got == GetResult(s.table, s.k, f)
    IN  Outcome(IF got # s.k THEN s
                ELSE [s EXCEPT !.k = MulNext(s.k), !.i = s.i + 1],
                <<GotOp(s.k, got)>>, got # s.k, got # TableGet(s.table, s.k))

\* LookupMissTest::run, one iteration.
LookupMissIter(s, f) ==
    LET got == GetResult(s.table, s.k + M, f)
    IN  Outcome(IF got # 0 THEN s
                ELSE [s EXCEPT !.k = MulNext(s.k), !.i = s.i + 1],
                <<GotOp(s.k + M, got)>>, got # 0, got # TableGet(s.table, s.k + M))

\* WorklistTest::run, one iteration.
WorklistIter(s, f) ==
    LET added == TableSet(s.table, s.w, s.w)
        found == RemoveResult(added, s.r, f)
        after == [s EXCEPT !.table = TableErase(added, s.r), !.w = LcgNext(s.w)]
    IN  Outcome(IF found THEN [after EXCEPT !.r = LcgNext(s.r), !.i = s.i + 1]
                ELSE after,
                <<SetOp(s.w, s.w), RemovedOp(s.r, found)>>,
                ~found, found # TableHas(added, s.r))

\* DeleteTest::run, one iteration.
DeleteIter(s, f) ==
    LET found == RemoveResult(s.table, s.k + 1, f)
        after == [s EXCEPT !.table = TableErase(s.table, s.k + 1)]
    IN  Outcome(IF found THEN [after EXCEPT !.k = (s.k + 11) % s.n, !.i = s.i + 1]
                ELSE after,
                <<RemovedOp(s.k + 1, found)>>,
                ~found, found # TableHas(s.table, s.k + 1))

\* LookupAfterDeleteTest::run, one iteration; (k & 0xff) == 0 is k % 256 = 0.
LadIter(s, f) ==
    LET key == s.i % Size
        got == GetResult(s.table, key, f)
        expected == IF key % 256 = 0 THEN key ELSE AbsentValue
    IN  Outcome(IF got # expected THEN s ELSE [s EXCEPT !.i = s.i + 1],
                <<GotOp(key, got)>>, got # expected, got # TableGet(s.table, key))

\* An iteration that removes its key and moves on to the next.
IadIterAdvancing(s, f) ==
    LET found == RemoveResult(s.table, s.k, f)
    IN  Outcome([s EXCEPT !.table = TableErase(s.table, s.k),
                          !.k = s.k + 1, !.i = s.i + 1],
                <<RemovedOp(s.k, found)>>,
                FALSE, found # TableHas(s.table, s.k))

\* InsertAfterDeleteTest::run, one iteration: the result of remove is not
\* looked at, and k stays 1.
IadIter(s, f) ==
    LET found == RemoveResult(s.table, s.k, f)
    IN  Outcome([s EXCEPT !.table = TableSet(TableErase(s.table, s.k), s.k, s.k),
                          !.i = s.i + 1],
                <<RemovedOp(s.k, found), SetOp(s.k, s.k)>>,
                FALSE, found # TableHas(s.table, s.k))

\* One iteration of the loop of run of test t with a Table that answers f.
RunIter(t, s, f) ==
    CASE t = "InsertLargeTest" -> InsertLargeIter(s)
      [] t = "InsertSmallTest" -> InsertSmallIter(s)
      [] t = "LookupHitTest" -> LookupHitIter(s, f)
      [] t = "LookupMissTest" -> LookupMissIter(s, f)
      [] t = "WorklistTest" -> WorklistIter(s, f)
      [] t = "DeleteTest" -> DeleteIter(s, f)
      [] t = "LookupAfterDeleteTest" -> LadIter(s, f)
      [] t = "InsertAfterDeleteTest" -> IadIter(s, f)

(***************************************************************************)
(* The steps of measure_single_run.  The instance of the measurement in    *)
(* progress is held in table, r, w, nloc, i, k; n is the argument; ops     *)
(* holds the operations of the latest iteration of run.                    *)
(***************************************************************************)
Self == [table |-> table, r |-> r, w |-> w, n |-> nloc, i |-> i, k |-> k]

Becomes(s) ==
    /\ table' = s.table
    /\ r' = s.r
    /\ w' = s.w
    /\ nloc' = s.n
    /\ i' = s.i
    /\ k' = s.k

\* What the storage of a Key member holds before it is assigned: anything,
\* what an earlier instance left there included.
Uninit(t, old) == IF t = "WorklistTest" THEN Garbage \cup {old} ELSE {0}

\* The measurements made so far.
Runs == Len(SelectSeq(events, LAMBDA e : e[1] = "construct"))

\* The model follows this many calls of measure_single_run in a row.
MaxRuns == 2

\* The sizes of a second call.
MaxAgainN == 1

\* Before the first call of measure_single_run<test<impl> >(n).
BeforeMeasure(sizes) ==
    /\ test \in KnownNames
    /\ n \in sizes
    /\ impl \in Tables
    /\ pc = "idle"
    /\ \E gr \in Uninit(test, KeyOne), gw \in Uninit(test, KeyOne) :
           /\ r = gr
           /\ w = gw
    /\ table = EmptyTable
    /\ nloc = 0 /\ i = 0 /\ k = NoKey(test)
    /\ ops = <<>>
    /\ events = <<>>
    /\ fault = FALSE
    /\ TrialsIdle /\ MainIdle /\ SpaceIdle

\* A construction that takes over the table and the cursors found in place.
DoConstructReusing ==
    /\ pc = "idle"
    /\ Becomes(Self)
    /\ pc' = "constructed"
    /\ ops' = <<>>
    /\ events' = Append(events, <<"construct">>)
    /\ UNCHANGED <<test, n, tvars, mvars, svars, impl, fault>>

\* Test test;
DoConstruct ==
    /\ pc = "idle"
    /\ \E gr \in Uninit(test, r), gw \in Uninit(test, w) :
           Becomes(Constructed(test, gr, gw))
    /\ pc' = "constructed"
    /\ ops' = <<>>
    /\ events' = Append(events, <<"construct">>)
    /\ UNCHANGED <<test, n, tvars, mvars, svars, impl, fault>>

\* test.setup(n);
DoSetup ==
    /\ pc = "constructed"
    /\ Becomes(SetupState(test, Self, n))
    /\ pc' = "set_up"
    /\ events' = Append(events, <<"setup", n>>)
    /\ UNCHANGED <<test, n, ops, tvars, mvars, svars, impl, fault>>

\* gettimeofday(&t0, NULL);
DoClockStart ==
    /\ pc = "set_up"
    /\ pc' = "timing"
    /\ events' = Append(events, <<"clock">>)
    /\ UNCHANGED <<test, n, i, wvars, tvars, mvars, svars, impl, fault>>

\* test.run(n): the call and what comes before the loop.
DoRunCall ==
    /\ pc = "timing"
    /\ Becomes(RunEnter(test, Self, n))
    /\ pc' = "running"
    /\ events' = Append(events, <<"run", n>>)
    /\ UNCHANGED <<test, n, ops, tvars, mvars, svars, impl, fault>>

\* test.run(n): one iteration of the loop, with a Table that answers f.
DoRunIter(f) ==
    /\ pc = "running"
    /\ RunMore(test, Self)
    /\ LET it == RunIter(test, Self, f)
       IN  /\ Becomes(it.st)
           /\ ops' = it.ops
           /\ pc' = IF it.aborted THEN "abort" ELSE "running"
           /\ fault' = (fault \/ it.bad)
    /\ UNCHANGED <<test, n, events, tvars, mvars, svars, impl>>

\* test.run(n) returns.
DoRunReturn ==
    /\ pc = "running"
    /\ ~RunMore(test, Self)
    /\ pc' = "ran"
    /\ events' = Append(events, <<"ran">>)
    /\ UNCHANGED <<test, n, i, wvars, tvars, mvars, svars, impl, fault>>

\* gettimeofday(&t1, NULL); return: the instance is destroyed.
DoClockEnd ==
    /\ pc = "ran"
    /\ pc' = "returned"
    /\ events' = Append(events, <<"clock">>) \o <<<<"destroy">>>>
    /\ UNCHANGED <<test, n, i, wvars, tvars, mvars, svars, impl, fault>>

MeasureConstruct == DoConstruct /\ UNCHANGED <<peer, agree>>

MeasureSetup == DoSetup /\ UNCHANGED <<peer, agree>>

MeasureClockStart == DoClockStart /\ UNCHANGED <<peer, agree>>

MeasureRunCall == DoRunCall /\ UNCHANGED <<peer, agree>>

MeasureRunIter == DoRunIter("ok") /\ UNCHANGED <<peer, agree>>

MeasureRunReturn == DoRunReturn /\ UNCHANGED <<peer, agree>>

MeasureClockEnd == DoClockEnd /\ UNCHANGED <<peer, agree>>

\* run_time_trials calls measure_single_run again, with another size.
MeasureAgain ==
    /\ pc = "returned"
    /\ Runs < MaxRuns
    /\ n' \in 0..MaxAgainN
    /\ pc' = "idle"
    /\ UNCHANGED <<test, i, wvars, tvars, mvars, svars, xvars>>

MeasureNext ==
    \/ MeasureConstruct
    \/ MeasureSetup
    \/ MeasureClockStart
    \/ MeasureRunCall
    \/ MeasureRunIter
    \/ MeasureRunReturn
    \/ MeasureClockEnd
    \/ MeasureAgain

MaxMeasureN == 3

MeasureInit ==
    /\ BeforeMeasure(0..MaxMeasureN)
    /\ peer = <<>>
    /\ agree = TRUE

MeasureSpec == MeasureInit /\ [][MeasureNext]_vars

(***************************************************************************)
(* setup called twice on the same instance.                                *)
(***************************************************************************)
MaxSetupN == 381

\* Sizes 0..24, and sizes at the length of the cycle of k * 31 % M.
SetupSizes == {x \in 0..MaxSetupN : x <= 24 \/ x >= MaxSetupN - 3}

\* test.setup(n) once more, on the instance that has been set up.
SetupAgain ==
    /\ pc = "set_up"
    /\ Len(events) = 2
    /\ Becomes(SetupState(test, Self, n))
    /\ events' = Append(events, <<"setup", n>>)
    /\ UNCHANGED <<test, n, pc, ops, tvars, mvars, svars, impl, fault, peer, agree>>

SetupInit ==
    /\ BeforeMeasure(SetupSizes)
    /\ peer = <<>>
    /\ agree = TRUE

SetupNext ==
    \/ MeasureConstruct
    \/ MeasureSetup
    \/ SetupAgain

SetupSpec == SetupInit /\ [][SetupNext]_vars

(***************************************************************************)
(* A Table that may answer against its contract.                           *)
(***************************************************************************)
MaxFaultN == 3

FaultRunIter == (\E f \in Answers : DoRunIter(f)) /\ UNCHANGED <<peer, agree>>

FaultInit ==
    /\ BeforeMeasure(0..MaxFaultN)
    /\ peer = <<>>
    /\ agree = TRUE

FaultNext ==
    \/ MeasureConstruct
    \/ MeasureSetup
    \/ MeasureClockStart
    \/ MeasureRunCall
    \/ FaultRunIter
    \/ MeasureRunReturn
    \/ MeasureClockEnd

FaultSpec == FaultInit /\ [][FaultNext]_vars

(***************************************************************************)
(* Two executions of the same measurement side by side, each on its own    *)
(* instance, with its own Table and its own uninitialized storage.         *)
(***************************************************************************)
MaxPairN == 3

\* The second execution: its Table, its position, its instance and the
\* operations of its latest iteration.
Peer(im, at, s, log) == [impl |-> im, pc |-> at, inst |-> s, ops |-> log]

PairInit ==
    /\ BeforeMeasure(0..MaxPairN)
    /\ \E im \in Tables, gr \in Uninit(test, KeyOne), gw \in Uninit(test, KeyOne) :
           peer = Peer(im, "idle", Constructed(test, gr, gw), <<>>)
    /\ agree = TRUE

PairConstruct ==
    /\ DoConstruct
    /\ \E gr \in Uninit(test, peer.inst.r), gw \in Uninit(test, peer.inst.w) :
           peer' = Peer(peer.impl, "constructed", Constructed(test, gr, gw), <<>>)
    /\ UNCHANGED agree

PairSetup ==
    /\ DoSetup
    /\ peer' = Peer(peer.impl, "set_up", SetupState(test, peer.inst, n), <<>>)
    /\ agree' = (agree /\ SetupLog(test, Self, n) = SetupLog(test, peer.inst, n))

PairClockStart ==
    /\ DoClockStart
    /\ peer' = [peer EXCEPT !.pc = "timing"]
    /\ UNCHANGED agree

PairRunCall ==
    /\ DoRunCall
    /\ peer' = Peer(peer.impl, "running", RunEnter(test, peer.inst, n), <<>>)
    /\ UNCHANGED agree

\* Both executions make their next iteration; they agree when the second
\* has an iteration to make and issues the operations of the first.
PairRunIter ==
    /\ DoRunIter("ok")
    /\ LET it == RunIter(test, peer.inst, "ok")
       IN  IF RunMore(test, peer.inst)
           THEN /\ peer' = Peer(peer.impl, IF it.aborted THEN "abort" ELSE "running",
                                it.st, it.ops)
                /\ agree' = (agree /\ it.ops = ops' /\ peer'.pc = pc')
           ELSE /\ peer' = [peer EXCEPT !.pc = "ran"]
                /\ agree' = FALSE

\* Both executions return from run; they agree when the second has no
\* iteration left either.
PairRunReturn ==
    /\ DoRunReturn
    /\ peer' = [peer EXCEPT !.pc = "ran"]
    /\ agree' = (agree /\ ~RunMore(test, peer.inst))

PairClockEnd ==
    /\ DoClockEnd
    /\ peer' = [peer EXCEPT !.pc = "returned"]
    /\ UNCHANGED agree

PairNext ==
    \/ PairConstruct
    \/ PairSetup
    \/ PairClockStart
    \/ PairRunCall
    \/ PairRunIter
    \/ PairRunReturn
    \/ PairClockEnd

PairSpec == PairInit /\ [][PairNext]_vars

\* C11 as stated: in every test, when during run the Table returns a result
\* against what the test expects (a get of a present key that returns
\* another value, a get of an absent key that returns a value, a remove of a
\* present key that returns false), run aborts and does not go on; a remove
\* that returned false has led to abort.
C11_FailLoud ==
    /\ fault => pc = "abort"
    /\ \A p \in 1..Len(ops) :
           (ops[p][1] = "remove" /\ ~ops[p][3]) => pc = "abort"

MaxSmallN == 360

\* Sizes 0, 1, 2 and sizes past the third Table: the key after the 216th,
\* the 351st and the 359th insert is a multiple of 145.
SmallSizes == {x \in 0..MaxSmallN : x <= 2 \/ x >= MaxSmallN - 3}

SmallInit ==
    /\ BeforeMeasure(SmallSizes)
    /\ test = "InsertSmallTest"
    /\ peer = <<>>
    /\ agree = TRUE

SmallSpec == SmallInit /\ [][MeasureNext]_vars

\* The operations of the latest iteration that are of kind kind.
OpsOf(kind) == SelectSeq(ops, LAMBDA o : o[1] = kind)

\* In a state of InsertSmallTest::run: whatever the latest iteration did.
SmallState ==
    /\ (pc = "running" /\ nloc = n) => (k = KeyOne /\ ops = <<>>)
    /\ pc = "ran" => (nloc = 0 /\ i = 0 /\ (n = 0 => ops = <<>>))
    /\ (pc \in {"running", "ran"} /\ ops # <<>>) =>
           /\ Len(OpsOf("set")) = 1
           /\ Len(OpsOf("close")) <= 1
           /\ Len(OpsOf("close")) = 1 <=> (KeyMod(k, 145) = 0 \/ nloc = 0)
           /\ \A p \in 1..Len(ops) : ops[p][1] = "close" => ops[p][2] >= 1
           /\ Len(OpsOf("close")) = 0 <=> i > 0
           /\ TableSize(table) = i

\* In an iteration of InsertSmallTest::run: one insert, of the key at the
\* cursor, which moves on along the sequence; a Table is constructed
\* exactly when the iteration before closed one or there was none.
SmallStep ==
    (pc = "running" /\ pc' = "running" /\ nloc' # nloc) =>
        /\ nloc' = nloc - 1
        /\ OpsOf("set")' = <<SetOp(k, k)>>
        /\ k' = LcgNext(k)
        /\ Len(OpsOf("new"))' = 1 <=> (ops = <<>> \/ Len(OpsOf("close")) = 1)

\* C13: InsertSmallTest::run(n) makes n inserts in all, none when n = 0;
\* every Table it builds gets at least one insert; a Table is closed, and
\* the next one started afresh, exactly when the key that follows is a
\* multiple of 145 or the n-th insert is done; the keys go on along the
\* congruential sequence from one Table to the next.
C13_InsertSmall ==
    /\ [](test = "InsertSmallTest" => SmallState)
    /\ [][test = "InsertSmallTest" => SmallStep]_vars

\* run(360) has returned: its last Table got the 360th insert alone, the
\* key after the 359th being a multiple of 145.
C13_Witness ==
    /\ test = "InsertSmallTest" /\ n = 360 /\ pc = "ran"
    /\ Len(ops) = 3
    /\ ops[1] = NewOp /\ ops[3] = CloseOp(1)

(***************************************************************************)
(* LookupAfterDeleteTest.                                                  *)
(***************************************************************************)
MaxLadN == 50001

\* Sizes 0, 1, 2 and one past Size, so that i % Size takes the value 0.
LadSizes == {0, 1, 2, MaxLadN}

LadInit ==
    /\ BeforeMeasure(LadSizes)
    /\ test = "LookupAfterDeleteTest"
    /\ peer = <<>>
    /\ agree = TRUE

LadSpec == LadInit /\ [][MeasureNext]_vars

\* The keys 1..Size that are multiples of 256.
Residual == {x \in 1..Size : x % 256 = 0}

\* What a Table holding the residual keys, each mapped to itself, returns
\* for get(key).
ResidualGet(key) == IF key \in Residual THEN key ELSE AbsentValue

\* C14: after LookupAfterDeleteTest::setup the table holds exactly the
\* multiples of 256 in 1..50000, each mapped to itself; probe i of run(n)
\* looks up i mod 50000 and gets what such a Table returns, which is what
\* run expects (nothing for key 0 included), so run never aborts.
C14_LookupAfterDelete ==
    test = "LookupAfterDeleteTest" =>
        /\ pc # "abort"
        /\ pc \in {"set_up", "timing", "running", "ran"} =>
               /\ DOMAIN table = Residual
               /\ \A x \in Residual : table[x] = x
        /\ (pc \in {"running", "ran"} /\ i > 1) =>
               /\ i - 1 \in 1..n
               /\ ops = <<GotOp((i - 1) % Size, ResidualGet((i - 1) % Size))>>
               /\ ResidualGet((i - 1) % Size) =
                      (IF ((i - 1) % Size) % 256 = 0 THEN (i - 1) % Size ELSE 0)
        /\ pc = "ran" => i = n + 1

\* Probe 50000 of run(50001) has looked up key 0 and found nothing.
C14_Witness ==
    /\ test = "LookupAfterDeleteTest" /\ n = 50001 /\ pc = "running"
    /\ i = Size + 1
    /\ ops = <<GotOp(0, AbsentValue)>>

(***************************************************************************)
(* The lifetime of the instance and the timed interval.                    *)
(***************************************************************************)
\* What measure_single_run does, in order; its p-th event is of this kind.
Lifecycle == <<"construct", "setup", "clock", "run", "ran", "clock", "destroy">>

\* Where measure_single_run stands after so many events.
Position == <<"constructed", "set_up", "timing", "running", "ran">>

\* The instance that setup(sz) makes of a newly constructed one.
FreshSetup(t, sz) == SetupState(t, Constructed(t, KeyOne, KeyOne), sz)

\* C15: every measurement constructs an instance with an empty table, calls
\* setup(n) once before the first clock reading, calls run(n) once, with the
\* same n, between the two clock readings and nothing else, and destroys
\* the instance; table and cursors are those of a new instance set up,
\* whatever the measurement before left behind.
C15_Lifetime ==
    /\ \A p \in 1..Len(events) :
           /\ events[p][1] = Lifecycle[((p - 1) % 7) + 1]
           /\ events[p][1] = "run" => events[p][2] = events[p - 2][2]
    /\ pc \in {"idle", "returned"} => Len(events) % 7 = 0
    /\ pc = "returned" => Len(events) > 0
    /\ pc \notin {"idle", "returned"} =>
           /\ Len(events) % 7 \in 1..5
           /\ pc = Position[Len(events) % 7]
    /\ pc \in {"set_up", "timing", "running", "ran"} =>
           events[Len(events) - (Len(events) % 7) + 2] = <<"setup", n>>
    /\ pc = "constructed" =>
           /\ table = EmptyTable /\ ops = <<>>
           /\ nloc = 0 /\ i = 0 /\ k = NoKey(test)
    /\ pc \in {"set_up", "timing"} => Self = FreshSetup(test, n)

\* The second measurement of InsertLargeTest, of size 1, has returned; the
\* first one, of size 3, had left three keys in its table.
C15_Witness ==
    /\ test = "InsertLargeTest" /\ pc = "returned"
    /\ Len(events) = 14
    /\ events[2] = <<"setup", 3>> /\ events[11] = <<"run", 1>>
    /\ TableSize(table) = 1

(***************************************************************************)
(* setup called twice.                                                     *)
(***************************************************************************)
\* C16: for each of the eight tests and every n, setup(n) called on an
\* instance that setup(n) has just been called on leaves the table with the
\* same keys and values and the cursors with the same values.
C16_SetupIdempotent ==
    [][(pc = "set_up" /\ pc' = "set_up") =>
           /\ Len(events') = 3
           /\ events'[3] = events[2]
           /\ table' = table
           /\ r' = r /\ w' = w /\ k' = k /\ i' = i /\ nloc' = nloc
           /\ Self' = FreshSetup(test, n)]_vars

\* setup(21) has been called twice on a DeleteTest, whose table holds the
\* 23 keys of the adjusted size.
C16_Witness ==
    /\ test = "DeleteTest" /\ n = 21 /\ pc = "set_up"
    /\ Len(events) = 3
    /\ TableSize(table) = 23

(***************************************************************************)
(* InsertAfterDeleteTest.                                                  *)
(***************************************************************************)
MaxIadN == 12

IadInit ==
    /\ BeforeMeasure(0..MaxIadN)
    /\ test = "InsertAfterDeleteTest"
    /\ peer = <<>>
    /\ agree = TRUE

IadSpec == IadInit /\ [][MeasureNext]_vars

\* The table holds exactly the keys 1..sz, each mapped to itself.
HoldsOneTo(tab, sz) ==
    /\ DOMAIN tab = 1..sz
    /\ \A x \in 1..sz : tab[x] = x

\* C18: InsertAfterDeleteTest::setup(n) leaves the keys 1..n, each mapped
\* to itself; every remove of run(n) is of a key present at that moment;
\* after each iteration of run, and so when run returns, the table holds
\* what it held after setup(n).
C18_RoundTrip ==
    test = "InsertAfterDeleteTest" =>
        /\ pc \in {"set_up", "timing", "running", "ran"} => HoldsOneTo(table, n)
        /\ (pc \in {"running", "ran"} /\ i > 0) =>
               /\ n >= 1
               /\ ops = <<RemovedOp(1, TRUE), SetOp(1, 1)>>
        /\ pc = "ran" => i = n

\* run(5) has returned: its last iteration removed key 1, which was there,
\* and set it again.
C18_Witness ==
    /\ test = "InsertAfterDeleteTest" /\ n = 5 /\ pc = "ran"
    /\ i = 5
    /\ ops = <<RemovedOp(1, TRUE), SetOp(1, 1)>>
    /\ TableSize(table) = 5

====
